---- MODULE Spec2Model ----
(***************************************************************************)
(* Model of data_query_server/server.py: the DataQueryServer store wrapper, *)
(* the dispatcher handlers (handle_call_tool, handle_read_resource,         *)
(* handle_list_tools, handle_list_resources) and the HTTP message endpoint  *)
(* (MessageEndpoint.post), all running as coroutines of one asyncio event   *)
(* loop over one shared DuckDB connection.                                  *)
(*                                                                          *)
(* Strings built with f-strings are modelled as sequences of their parts:   *)
(* f"Query failed: {e}" is <<"Query failed: ", e>>.  Python's None is the   *)
(* value None in string-typed fields and <<>> in the id field.              *)
(***************************************************************************)
EXTENDS Integers, Sequences, FiniteSets, TLC

\* ------------------------------------------------------------------ bounds

\* Number of HTTP requests that can be in progress at the same time.
NumHttp == 2
\* Largest LIMIT value of the SELECT queries that are tried.
MaxLimit == 1
\* Largest JSON-RPC request id that is tried.
MaxId == 1

\* ---------------------------------------------------------------- constants

\* len(sales_data): range(1, 101)
SalesRows == 100
\* len(customer_data): range(1, 51)
CustomerRows == 50
\* result["data"][:10]
DisplayRows == 10
\* f"SELECT * FROM {dataset_name} LIMIT 10"
ResourceLimit == 10
\* JSON-RPC error codes and HTTP status codes of MessageEndpoint.post
ParseError == -32700
MethodNotFound == -32601
InternalError == -32603
HttpOk == 200
HttpBadRequest == 400
\* result.head(100)
FrameRows == 100

None == "<None>"

Min(a, b) == IF a < b THEN a ELSE b

\* ------------------------------------------------------------------- state

VARIABLES
    conn,                \* data_server.conn: None or "open"
    tables,              \* the tables of the database behind the connection
    available_datasets,  \* keys of data_server.available_datasets
    pc,                  \* position of each coroutine: "idle", "body", "store"
    running,             \* the coroutine the event loop is executing: {} or {t}
    cur,                 \* the call a coroutine has in flight
    obs,                 \* the operation that completed last, and its outcome
    session,             \* run_stdio_server: "idle", "active", "closed"
    opened               \* the connections duckdb.connect gave that are open

vars == <<conn, tables, available_datasets, pc, running, cur, obs, session,
          opened>>

\* Task 0 is a direct caller of the handlers (the stream session, a test);
\* tasks 1..NumHttp are MessageEndpoint.post coroutines.
HttpTasks == 1..NumHttp
Tasks == 0..NumHttp

\* ------------------------------------------------------------------- store

TableNames == {"sales", "customers", "tmp"}
SampleTables == {"sales", "customers"}

sales_columns ==
    <<"order_id", "customer_id", "product", "quantity", "price", "order_date">>
customer_columns ==
    <<"customer_id", "name", "email", "city", "registration_date">>

\* Columns and row count of a table held by the database.  "tmp" stands for
\* a table made by a caller's own CREATE TABLE statement.
TableColumns(t) ==
    CASE t = "sales" -> sales_columns
      [] t = "customers" -> customer_columns
      [] OTHER -> <<"x">>

TableRows(t) ==
    CASE t = "sales" -> SalesRows
      [] t = "customers" -> CustomerRows
      [] OTHER -> 0

\* The row limits of the SELECTs: a few rows, and row counts at and above the
\* ten rows that a sql_query summary shows.
Limits == (0..MaxLimit) \cup {DisplayRows, DisplayRows + MaxLimit, DisplayRows + 5}

\* The SQL texts that are tried, by what the store does with them:
\*   select  SELECT * FROM <table> LIMIT <limit>
\*   alias   SELECT customer_id AS id, sale_id AS id FROM sales LIMIT <limit>
\*   create  CREATE TABLE tmp (x INTEGER)
\*   drop    DROP TABLE <table>
\*   bad     a text that is not SQL
\*   empty   the empty string
Queries ==
    [kind : {"select"}, table : TableNames, limit : 0..MaxLimit]
    \cup [kind : {"select"}, table : {"sales"}, limit : Limits]
    \cup [kind : {"alias"}, table : {"sales"}, limit : {1}]
    \cup [kind : {"create"}, table : {"tmp"}, limit : {0}]
    \cup [kind : {"drop"}, table : {"sales", "tmp"}, limit : {0}]
    \cup [kind : {"bad", "empty"}, table : {"tmp"}, limit : {0}]

\* The SQL texts given to the tool function execute_sql_query.
ToolQueries == {q \in Queries : q.limit <= MaxLimit}

Select(t, k) == [kind |-> "select", table |-> t, limit |-> k]

\* The result columns of the aliased SELECT: two columns of one name.
alias_columns == <<"id", "id">>

\* Row i of a result of n columns, as fetchall() gives it: a tuple whose
\* j-th value is written <<i, j>>.
Tuple(i, n) == [j \in 1..n |-> <<i, j>>]

\* The first k rows of table t, projected on the given columns.
Fetch(t, k, columns) ==
    [i \in 1..Min(k, TableRows(t)) |-> Tuple(i, Len(columns))]

NoTable(tbls) ==
    [ok |-> FALSE, error |-> "Catalog Error: table does not exist",
     rows |-> <<>>, columns |-> <<>>, tables |-> tbls]

\* duckdb: conn.execute(query).fetchall() and conn.description.
\* [ok, error, rows, columns, tables]: rows are tuples, numbered 1..n.
StoreRun(q, tbls) ==
    CASE q.kind = "select" ->
            IF q.table \in tbls
            THEN [ok |-> TRUE, error |-> "",
                  rows |-> Fetch(q.table, q.limit, TableColumns(q.table)),
                  columns |-> TableColumns(q.table), tables |-> tbls]
            ELSE NoTable(tbls)
      [] q.kind = "alias" ->
            IF q.table \in tbls
            THEN [ok |-> TRUE, error |-> "",
                  rows |-> Fetch(q.table, q.limit, alias_columns),
                  columns |-> alias_columns, tables |-> tbls]
            ELSE NoTable(tbls)
      [] q.kind = "create" ->
            IF q.table \in tbls
            THEN [ok |-> FALSE, error |-> "Catalog Error: table already exists",
                  rows |-> <<>>, columns |-> <<>>, tables |-> tbls]
            ELSE [ok |-> TRUE, error |-> "", rows |-> <<>>,
                  columns |-> <<"Count">>, tables |-> tbls \cup {q.table}]
      [] q.kind = "drop" ->
            IF q.table \in tbls
            THEN [ok |-> TRUE, error |-> "", rows |-> <<>>,
                  columns |-> <<"Success">>, tables |-> tbls \ {q.table}]
            ELSE NoTable(tbls)
      \* execute("") runs no statement, and fetchall() then raises
      [] q.kind = "empty" ->
            [ok |-> FALSE, error |-> "No open result set",
             rows |-> <<>>, columns |-> <<>>, tables |-> tbls]
      [] OTHER ->
            [ok |-> FALSE, error |-> "Parser Error: syntax error",
             rows |-> <<>>, columns |-> <<>>, tables |-> tbls]

NoneTypeError == "'NoneType' object has no attribute 'execute'"

\* An except branch that keeps the columns of the statement that failed.
SqlFailure_KeepsColumns(e, tbls) ==
    [success |-> FALSE, error |-> e, data |-> <<>>, columns |-> <<"x">>,
     row_count |-> 0, tables |-> tbls]

\* What the except branch of execute_sql returns.
SqlFailure(e, tbls) ==
    [success |-> FALSE, error |-> e, data |-> <<>>, columns |-> <<>>,
     row_count |-> 0, tables |-> tbls]

\* zip(columns, row, strict=False): the pairs up to the shorter length.
Zip(columns, row) ==
    [j \in 1..Min(Len(columns), Len(row)) |-> <<columns[j], row[j]>>]

\* dict(pairs): one entry per distinct key; a key that comes again keeps
\* the value of its last pair.
Dict(pairs) ==
    [k \in {pairs[j][1] : j \in DOMAIN pairs} |->
        LET last == CHOOSE j \in DOMAIN pairs :
                        /\ pairs[j][1] = k
                        /\ \A m \in DOMAIN pairs : pairs[m][1] = k => m <= j
        IN pairs[last][2]]

\* rows.append(dict(zip(columns, row, strict=False)))
RowDict(columns, row) == Dict(Zip(columns, row))

\* An execute_sql that answers with an empty success when there is no
\* connection.
execute_sql_SilentWithoutConn(q, c, tbls) ==
    IF c = None
    THEN [success |-> TRUE, error |-> "", data |-> <<>>, columns |-> <<>>,
          row_count |-> 0, tables |-> tbls]
    ELSE LET r == StoreRun(q, tbls) IN
         IF r.ok
         THEN LET rows == [i \in DOMAIN r.rows |-> RowDict(r.columns, r.rows[i])]
              IN [success |-> TRUE, error |-> "", data |-> rows,
                  columns |-> r.columns, row_count |-> Len(rows),
                  tables |-> r.tables]
         ELSE SqlFailure(r.error, r.tables)

\* DataQueryServer.execute_sql: the result dict, and the tables afterwards.
execute_sql(q, c, tbls) ==
    IF c = None
    THEN SqlFailure(NoneTypeError, tbls)
    ELSE LET r == StoreRun(q, tbls) IN
         IF r.ok
         THEN LET rows == [i \in DOMAIN r.rows |-> RowDict(r.columns, r.rows[i])]
              IN [success |-> TRUE, error |-> "", data |-> rows,
                  columns |-> r.columns, row_count |-> Len(rows),
                  tables |-> r.tables]
         ELSE SqlFailure(r.error, r.tables)

TableOrder == <<"customers", "sales", "tmp">>
InTables(tbls) == LET Has(t) == t \in tbls IN SelectSeq(TableOrder, Has)

\* DataQueryServer.get_table_info: kind "error" is {"error": ...}, "table" is
\* the dict of one table, "tables" the dict of all tables.
NoInfo ==
    [kind |-> "error", error |-> "", table |-> "", schema |-> <<>>,
     metadata |-> FALSE, tables |-> <<>>, datasets_info |-> {}]

get_table_info(table_name, c, tbls, ds) ==
    IF c = None
    THEN [NoInfo EXCEPT !.error = NoneTypeError]
    ELSE IF table_name # None /\ table_name # ""
    THEN IF table_name \in tbls
         THEN [NoInfo EXCEPT !.kind = "table", !.table = table_name,
                             !.schema = TableColumns(table_name),
                             !.metadata = (table_name \in ds)]
         ELSE [NoInfo EXCEPT !.error = "Catalog Error: table does not exist"]
    ELSE [NoInfo EXCEPT !.kind = "tables", !.tables = InTables(tbls),
                        !.datasets_info = ds]

\* -------------------------------------------------------------- dispatcher

ToolNames == {"sql_query", "describe_table", "list_tables"}
\* The tool names that are tried: the three tools, another name, no name.
Names == ToolNames \cup {"unknown_tool", None}

NoQuery == [kind |-> "bad", table |-> "tmp", limit |-> 0]

\* The arguments value of a tool call: None, a dict or (from a JSON body
\* only) a number.  keys are the keys of the dict.
NoneArgs ==
    [shape |-> "none", keys |-> {}, query |-> NoQuery, table_name |-> None]
EmptyDict == [NoneArgs EXCEPT !.shape = "dict"]
NumberArgs == [NoneArgs EXCEPT !.shape = "number"]
QueryArgs(q) == [EmptyDict EXCEPT !.keys = {"query"}, !.query = q]
TableArgs(n) == [EmptyDict EXCEPT !.keys = {"table_name"}, !.table_name = n]
OtherArgs == [EmptyDict EXCEPT !.keys = {"other"}]

DictArgs ==
    {NoneArgs, EmptyDict, OtherArgs}
    \cup {QueryArgs(q) : q \in Queries}
    \cup {TableArgs(n) : n \in TableNames \cup {""}}

\* Python's "not arguments"
Falsy(a) == a.shape = "none" \/ (a.shape = "dict" /\ a.keys = {})

\* The text of a TextContent, or the str() a resource read returns, by parts.
EmptyText ==
    [head |-> "", error |-> "", table |-> "", columns |-> <<>>,
     row_count |-> 0, rows |-> <<>>, more |-> 0, schema |-> <<>>,
     metadata |-> FALSE, items |-> <<>>, success |-> FALSE,
     datasets |-> {}, resources |-> <<>>]

\* The outcome of a handler: what it raised or returned, how many times it
\* entered the store (execute_sql, get_table_info), the tables afterwards.
Returns(text, store, tbls) ==
    [raised |-> FALSE, exc |-> "", err |-> <<>>, content |-> <<text>>,
     store |-> store, tables |-> tbls]
Raises(exc, err, store, tbls) ==
    [raised |-> TRUE, exc |-> exc, err |-> err, content |-> <<>>,
     store |-> store, tables |-> tbls]

\* A summary that shows every row of the result.
FirstRows_All(data) == data

FirstRows(data) == [i \in 1..Min(Len(data), DisplayRows) |-> data[i]]

\* A summary that does not look at result["success"].
SqlQueryText_IgnoresSuccess(result) ==
    [EmptyText EXCEPT
        !.head = "Query executed successfully!",
        !.success = TRUE,
        !.columns = result.columns,
        !.row_count = result.row_count,
        !.rows = FirstRows(result.data)]

SqlQueryText(result) ==
    IF result.success
    THEN [EmptyText EXCEPT
            !.head = "Query executed successfully!",
            !.success = TRUE,
            !.columns = result.columns,
            !.row_count = result.row_count,
            !.rows = FirstRows(result.data),
            !.more = IF Len(result.data) > DisplayRows
                     THEN Len(result.data) - DisplayRows ELSE 0]
    ELSE [EmptyText EXCEPT !.head = "Query failed: ", !.error = result.error]

DescribeTableText(info) ==
    [EmptyText EXCEPT !.head = "Table: ", !.table = info.table,
                      !.schema = info.schema, !.metadata = info.metadata]

ListTablesText(info) ==
    [EmptyText EXCEPT !.head = "Available tables:", !.items = info.tables]

\* "not arguments or key not in arguments"; a number has no "in"
ArgsTypeError(a) == ~Falsy(a) /\ a.shape = "number"
\* A check that stops at "not arguments".
MissingKey_FalsyOnly(a, key) == Falsy(a)

MissingKey(a, key) == Falsy(a) \/ key \notin a.keys

NotIterable == <<"argument of type 'int' is not iterable">>

\* A sql_query that runs a failed query a second time.
sql_query_tool_Retries(a, c, tbls) ==
    IF ArgsTypeError(a)
    THEN Raises("TypeError", NotIterable, 0, tbls)
    ELSE IF MissingKey(a, "query")
    THEN Raises("ValueError", <<"Missing SQL query">>, 0, tbls)
    ELSE LET first == execute_sql(a.query, c, tbls) IN
         IF first.success
         THEN Returns(SqlQueryText(first), 1, first.tables)
         ELSE LET result == execute_sql(a.query, c, first.tables) IN
              Returns(SqlQueryText(result), 2, result.tables)

\* handle_call_tool, the branch of sql_query
sql_query_tool(a, c, tbls) ==
    IF ArgsTypeError(a)
    THEN Raises("TypeError", NotIterable, 0, tbls)
    ELSE IF MissingKey(a, "query")
    THEN Raises("ValueError", <<"Missing SQL query">>, 0, tbls)
    ELSE LET result == execute_sql(a.query, c, tbls) IN
         Returns(SqlQueryText(result), 1, result.tables)

\* A describe_table that raises what get_table_info reports.
describe_table_tool_RaisesOnError(a, c, tbls, ds) ==
    IF ArgsTypeError(a)
    THEN Raises("TypeError", NotIterable, 0, tbls)
    ELSE IF MissingKey(a, "table_name")
    THEN Raises("ValueError", <<"Missing table name">>, 0, tbls)
    ELSE LET info == get_table_info(a.table_name, c, tbls, ds) IN
         CASE info.kind = "error" ->
                Raises("ValueError", <<"Error describing table: ", info.error>>,
                       1, tbls)
           [] info.kind = "table" ->
                Returns(DescribeTableText(info), 1, tbls)
           [] OTHER ->
                Raises("KeyError", <<"'table'">>, 1, tbls)

\* handle_call_tool, the branch of describe_table.  With a table_name that
\* is "" get_table_info answers for all tables, and table_info["table"]
\* is a KeyError.
describe_table_tool(a, c, tbls, ds) ==
    IF ArgsTypeError(a)
    THEN Raises("TypeError", NotIterable, 0, tbls)
    ELSE IF MissingKey(a, "table_name")
    THEN Raises("ValueError", <<"Missing table name">>, 0, tbls)
    ELSE LET info == get_table_info(a.table_name, c, tbls, ds) IN
         CASE info.kind = "error" ->
                Returns([EmptyText EXCEPT !.head = "Error describing table: ",
                                          !.error = info.error], 1, tbls)
           [] info.kind = "table" ->
                Returns(DescribeTableText(info), 1, tbls)
           [] OTHER ->
                Raises("KeyError", <<"'table'">>, 1, tbls)

\* handle_call_tool, the branch of list_tables
list_tables_tool(c, tbls, ds) ==
    LET info == get_table_info(None, c, tbls, ds) IN
    IF info.kind = "error"
    THEN Returns([EmptyText EXCEPT !.head = "Error listing tables: ",
                                   !.error = info.error], 1, tbls)
    ELSE Returns(ListTablesText(info), 1, tbls)

\* handle_call_tool, the else branch
unknown_tool(name, tbls) ==
    Raises("ValueError", <<"Unknown tool: ", name>>, 0, tbls)

\* A handle_call_tool whose last branch is taken for every other name.
handle_call_tool_LastBranch(name, a, c, tbls, ds) ==
    CASE name = "sql_query" -> sql_query_tool(a, c, tbls)
      [] name = "describe_table" -> describe_table_tool(a, c, tbls, ds)
      [] OTHER -> list_tables_tool(c, tbls, ds)

handle_call_tool(name, a, c, tbls, ds) ==
    CASE name = "sql_query" -> sql_query_tool(a, c, tbls)
      [] name = "describe_table" -> describe_table_tool(a, c, tbls, ds)
      [] name = "list_tables" -> list_tables_tool(c, tbls, ds)
      [] OTHER -> unknown_tool(name, tbls)

\* A parsed AnyUrl, or what a JSON body gave in its place: kind "none" is
\* no uri (None), "malformed" a string AnyUrl rejects.
Url(scheme, host) == [kind |-> "url", scheme |-> scheme, host |-> host]
NoUrl == [kind |-> "none", scheme |-> "", host |-> ""]
MalformedUrl == [kind |-> "malformed", scheme |-> "", host |-> ""]
SchemaAll == Url("schema", "all")

Urls ==
    {Url("dataset", h) : h \in TableNames}
    \cup {SchemaAll, Url("schema", "sales"), Url("invalid", "resource")}

HttpUrls ==
    {Url("dataset", "sales"), Url("dataset", "tmp"), SchemaAll,
     Url("invalid", "resource")}

\* str(result) of an execute_sql result
QueryResultText(result) ==
    [EmptyText EXCEPT !.head = "str(result)", !.success = result.success,
                      !.error = result.error, !.columns = result.columns,
                      !.row_count = result.row_count, !.rows = result.data]

\* str(schema_info) of get_table_info()
SchemaText(info) ==
    [EmptyText EXCEPT !.head = "str(schema_info)", !.error = info.error,
                      !.items = info.tables, !.datasets = info.datasets_info]

\* A handle_read_resource that looks the host up among the tables of the
\* database instead of among available_datasets.
handle_read_resource_ByTable(uri, c, tbls, ds) ==
    CASE uri.scheme = "dataset" ->
            IF uri.host \in tbls
            THEN LET result == execute_sql(Select(uri.host, ResourceLimit), c, tbls)
                 IN Returns(QueryResultText(result), 1, result.tables)
            ELSE Raises("ValueError", <<"Dataset not found: ", uri.host>>, 0, tbls)
      [] uri.scheme = "schema" ->
            Returns(SchemaText(get_table_info(None, c, tbls, ds)), 1, tbls)
      [] OTHER ->
            Raises("ValueError", <<"Unsupported URI scheme: ", uri.scheme>>, 0, tbls)

handle_read_resource(uri, c, tbls, ds) ==
    CASE uri.scheme = "dataset" ->
            IF uri.host \in ds
            THEN LET result == execute_sql(Select(uri.host, ResourceLimit), c, tbls)
                 IN Returns(QueryResultText(result), 1, result.tables)
            ELSE Raises("ValueError", <<"Dataset not found: ", uri.host>>, 0, tbls)
      [] uri.scheme = "schema" ->
            Returns(SchemaText(get_table_info(None, c, tbls, ds)), 1, tbls)
      [] OTHER ->
            Raises("ValueError", <<"Unsupported URI scheme: ", uri.scheme>>, 0, tbls)

\* A tool list that is only given once the database holds a table.
handle_list_tools_WhenLoaded(tbls) ==
    Returns([EmptyText EXCEPT !.head = "tools",
               !.items = IF tbls = {} THEN <<>>
                         ELSE <<"sql_query", "describe_table", "list_tables">>],
            0, tbls)

\* handle_list_tools: three Tool descriptors, built from literals.
handle_list_tools(tbls) ==
    Returns([EmptyText EXCEPT !.head = "tools",
               !.items = <<"sql_query", "describe_table", "list_tables">>],
            0, tbls)

\* available_datasets is a dict: its keys come in insertion order.
DatasetOrder == <<"sales", "customers">>

\* A resource list with one entry per table of the database.
handle_list_resources_ByTable(tbls, ds) ==
    LET names == InTables(tbls)
    IN Returns([EmptyText EXCEPT !.head = "resources",
                  !.resources = [i \in 1..Len(names) |-> Url("dataset", names[i])]
                                \o <<SchemaAll>>],
               0, tbls)

\* handle_list_resources: one Resource per key of available_datasets, then
\* the schema resource.
handle_list_resources(tbls, ds) ==
    LET Has(n) == n \in ds
        names == SelectSeq(DatasetOrder, Has)
    IN Returns([EmptyText EXCEPT !.head = "resources",
                  !.resources = [i \in 1..Len(names) |-> Url("dataset", names[i])]
                                \o <<SchemaAll>>],
               0, tbls)

\* ------------------------------------------------------------ HTTP endpoint

\* data.get("id"): None (<<>>) when the body has no id or a null id.
NoId == <<>>
Ids == {NoId} \cup {<<i>> : i \in 1..MaxId}

Methods ==
    {"initialize", "tools/list", "tools/call", "resources/list", "resources/read"}

\* One request.  body is "direct" for a direct call of a handler or of
\* DataQueryServer.execute_sql (method "execute_sql"), else what
\* request.json() finds: "notjson", "nonobject" (JSON, but no object) or
\* "object".  params is the shape of data["params"]: "absent", "null", "list"
\* or "dict"; name, arguments and uri are what params.get(...) gives.
Request(body, method, id, params, name, arguments, uri) ==
    [body |-> body, method |-> method, id |-> id, params |-> params,
     name |-> name, arguments |-> arguments, uri |-> uri]

NoRequest == Request("none", None, NoId, "absent", None, EmptyDict, NoUrl)

\* The (name, arguments) pairs that are tried: each tool with every value
\* of the argument it reads, and an unknown name with every value.
ToolCalls ==
    ({"sql_query"} \X
        ({NoneArgs, EmptyDict, OtherArgs, TableArgs("sales")}
         \cup {QueryArgs(q) : q \in Queries}))
    \cup ({"describe_table"} \X
        ({NoneArgs, EmptyDict, OtherArgs, QueryArgs(NoQuery)}
         \cup {TableArgs(n) : n \in TableNames \cup {""}}))
    \cup ({"list_tables"} \X {NoneArgs, EmptyDict, OtherArgs})
    \cup ({"unknown_tool"} \X DictArgs)

\* Those sent in a JSON body, where a name can be missing and arguments can
\* be a number.
HttpToolCalls ==
    ({"sql_query"} \X
        {EmptyDict, NumberArgs, QueryArgs(Select("sales", MaxLimit)),
         QueryArgs(Select("tmp", 0)), QueryArgs(NoQuery)})
    \cup ({"describe_table"} \X
        {EmptyDict, NumberArgs, TableArgs("sales"), TableArgs("")})
    \cup ({"list_tables"} \X {EmptyDict, NumberArgs})
    \cup ({"unknown_tool", None} \X {EmptyDict, NumberArgs})

DirectRequests ==
    {Request("direct", "tools/call", NoId, "dict", c[1], c[2], NoUrl) :
        c \in ToolCalls}
    \cup {Request("direct", "resources/read", NoId, "dict", None, EmptyDict, u) :
        u \in Urls}
    \cup {Request("direct", m, NoId, "dict", None, EmptyDict, NoUrl) :
        m \in {"tools/list", "resources/list"}}
    \cup {Request("direct", "execute_sql", NoId, "dict", None, QueryArgs(q), NoUrl) :
        q \in Queries}
    \cup {Request("direct", "execute_sql_query", NoId, "dict", None, QueryArgs(q), NoUrl) :
        q \in ToolQueries}
    \cup {Request("direct", "list_available_tables", NoId, "dict", None, EmptyDict, NoUrl)}

\* params.get("arguments", {}) is {} without the key; params.get("name") and
\* params.get("uri") are None without theirs.
HttpRequests ==
    {Request("notjson", None, NoId, "absent", None, EmptyDict, NoUrl),
     Request("nonobject", None, NoId, "absent", None, EmptyDict, NoUrl)}
    \cup {Request("object", m, i, p, None, EmptyDict, NoUrl) :
            m \in Methods \cup {"unknown/method", None}, i \in Ids,
            p \in {"absent", "null"}}
    \cup {Request("object", m, i, "list", None, EmptyDict, NoUrl) :
            m \in {"tools/call", "resources/read"}, i \in Ids}
    \cup {Request("object", "tools/call", i, "dict", c[1], c[2], NoUrl) :
            i \in Ids, c \in HttpToolCalls}
    \cup {Request("object", "resources/read", i, "dict", None, EmptyDict, u) :
            i \in Ids, u \in HttpUrls \cup {MalformedUrl}}

\* A JSONResponse: status, id, and either result or error {code, message}.
\* more_body tells whether the response is left open after this body: a
\* Response of starlette is sent whole, with its body as the last chunk.
Response(status, id, code, message, result) ==
    [status |-> status, id |-> id, error |-> code # 0, code |-> code,
     message |-> message, result |-> result, more_body |-> FALSE]
NoResponse == Response(0, NoId, 0, <<>>, <<>>)

\* A GET of the event endpoint.
GetRequest == [NoRequest EXCEPT !.body = "get"]

\* Response("event: connected\ndata: MCP server ready\n\n",
\*          media_type="text/event-stream", ...)
EventResponse ==
    Response(HttpOk, NoId, 0, <<>>,
             <<[EmptyText EXCEPT !.head = "event: connected"]>>)

\* An except branch without status_code=400.
ParseErrorResponse_Status200(e) ==
    Response(HttpOk, NoId, ParseError, <<"Parse error: ", e>>, <<>>)

\* An except branch that raises again, so that post returns no response.
ParseErrorResponse_Escapes(e) == NoResponse

\* The except branch of post.
ParseErrorResponse(e) ==
    Response(HttpBadRequest, NoId, ParseError, <<"Parse error: ", e>>, <<>>)

\* What handling a request comes to: the handler's outcome out (dispatch is
\* the number of handlers called) and, from the endpoint, the response.
\* init tells that handling it ran data_server.initialize() first.
Handled(out, dispatch, resp) ==
    [out |-> out, dispatch |-> dispatch, resp |-> resp, init |-> FALSE]
NoOutcome(tbls) == Returns(EmptyText, 0, tbls)

\* The id a response to request id is tagged with.
ResponseId(id) == id

\* A call without the inner try: what the handler raises reaches the except
\* branch of post.
Guarded_NoTry(id, out) ==
    Handled(out, 1,
        IF out.raised
        THEN ParseErrorResponse(out.exc)
        ELSE Response(HttpOk, ResponseId(id), 0, <<>>, out.content))

\* try: result = await handler(...) except Exception as e: -32603
Guarded(id, out) ==
    Handled(out, 1,
        IF out.raised
        THEN Response(HttpOk, ResponseId(id), InternalError, out.err, <<>>)
        ELSE Response(HttpOk, ResponseId(id), 0, <<>>, out.content))

\* result = await handler() with no try of its own: what it raises reaches
\* the except branch of post.
Unguarded(id, out) ==
    Handled(out, 1,
        IF out.raised
        THEN ParseErrorResponse(out.exc)
        ELSE Response(HttpOk, ResponseId(id), 0, <<>>, out.content))

NoGet == "object has no attribute 'get'"

\* An else branch that answers with the internal-error code.
method_not_found_InternalError(req, tbls) ==
    Handled(NoOutcome(tbls), 0,
        Response(HttpOk, ResponseId(req.id), InternalError,
                 <<"Method not found: ", req.method>>, <<>>))

\* post, the else branch of the methods
method_not_found(req, tbls) ==
    Handled(NoOutcome(tbls), 0,
        Response(HttpOk, ResponseId(req.id), MethodNotFound,
                 <<"Method not found: ", req.method>>, <<>>))

\* MessageEndpoint.post
post(req, c, tbls, ds) ==
    CASE req.body = "notjson" ->
            Handled(NoOutcome(tbls), 0, ParseErrorResponse("JSONDecodeError"))
      [] req.body = "nonobject" ->
            Handled(NoOutcome(tbls), 0, ParseErrorResponse(NoGet))
      [] req.method = "initialize" ->
            Handled(NoOutcome(tbls), 0,
                Response(HttpOk, ResponseId(req.id), 0, <<>>,
                         <<[EmptyText EXCEPT !.head = "capabilities"]>>))
      [] req.method = "tools/list" ->
            Unguarded(req.id, handle_list_tools(tbls))
      [] req.method = "tools/call" ->
            IF req.params \in {"null", "list"}
            THEN Handled(NoOutcome(tbls), 0, ParseErrorResponse(NoGet))
            ELSE Guarded(req.id,
                     handle_call_tool(req.name, req.arguments, c, tbls, ds))
      [] req.method = "resources/list" ->
            Unguarded(req.id, handle_list_resources(tbls, ds))
      [] req.method = "resources/read" ->
            IF req.params \in {"null", "list"}
            THEN Handled(NoOutcome(tbls), 0, ParseErrorResponse(NoGet))
            ELSE IF req.uri.kind # "url"
            THEN Handled(Raises("ValidationError", <<"URL input invalid">>, 0, tbls),
                         0,
                         Response(HttpOk, ResponseId(req.id), InternalError,
                                  <<"URL input invalid">>, <<>>))
            ELSE Guarded(req.id, handle_read_resource(req.uri, c, tbls, ds))
      [] OTHER -> method_not_found(req, tbls)

\* if not data_server.conn: await data_server.initialize()
\* The tables of the database when the tool function reaches its query.
LazyTables(c, tbls) == IF c = None THEN tbls \cup SampleTables ELSE tbls

\* The tool function execute_sql_query: the frame of fetchdf() as a string.
execute_sql_query(q, c, tbls) ==
    LET r == StoreRun(q, LazyTables(c, tbls))
        text == IF ~r.ok
                THEN [EmptyText EXCEPT !.head = "Error executing query: ",
                                       !.error = r.error]
                ELSE IF Len(r.rows) = 0
                THEN [EmptyText EXCEPT !.head =
                        "Query executed successfully but returned no results."]
                ELSE [EmptyText EXCEPT !.head = "result.to_string(index=False)",
                        !.columns = r.columns,
                        !.row_count = Min(Len(r.rows), FrameRows),
                        !.more = IF Len(r.rows) > FrameRows
                                 THEN Len(r.rows) ELSE 0]
    IN [Handled(Returns(text, 1, r.tables), 0, NoResponse) EXCEPT !.init = (c = None)]

\* The columns of every table of names, in order: the DESCRIBE of each.
RECURSIVE Schemas(_)
Schemas(names) ==
    IF names = <<>> THEN <<>>
    ELSE TableColumns(Head(names)) \o Schemas(Tail(names))

\* The tool function list_available_tables: SHOW TABLES, then one DESCRIBE
\* per table.
list_available_tables(c, tbls) ==
    LET names == InTables(LazyTables(c, tbls))
        text == IF names = <<>>
                THEN [EmptyText EXCEPT !.head = "No tables available in the database."]
                ELSE [EmptyText EXCEPT !.head = "Available tables and their schemas:",
                                       !.items = names, !.schema = Schemas(names)]
    IN [Handled(Returns(text, 1 + Len(names), LazyTables(c, tbls)), 0, NoResponse)
          EXCEPT !.init = (c = None)]

\* A direct call of a handler, as the stream session or a test makes it.
direct_call(req, c, tbls, ds) ==
    CASE req.method = "tools/call" ->
            Handled(handle_call_tool(req.name, req.arguments, c, tbls, ds),
                    1, NoResponse)
      [] req.method = "resources/read" ->
            Handled(handle_read_resource(req.uri, c, tbls, ds), 1, NoResponse)
      [] req.method = "tools/list" ->
            Handled(handle_list_tools(tbls), 1, NoResponse)
      [] req.method = "resources/list" ->
            Handled(handle_list_resources(tbls, ds), 1, NoResponse)
      [] req.method = "execute_sql_query" ->
            execute_sql_query(req.arguments.query, c, tbls)
      [] req.method = "list_available_tables" ->
            list_available_tables(c, tbls)
      [] OTHER ->
            LET result == execute_sql(req.arguments.query, c, tbls) IN
            Handled(Returns(QueryResultText(result), 1, result.tables),
                    0, NoResponse)

Handle(req, c, tbls, ds) ==
    IF req.body = "direct"
    THEN direct_call(req, c, tbls, ds)
    ELSE post(req, c, tbls, ds)

\* ------------------------------------------------------------------ actions

Lifecycle(op) == [NoRequest EXCEPT !.body = "lifecycle", !.method = op]
InFlight == [NoRequest EXCEPT !.body = "inflight"]

\* pre is the server state the operation started from.
Observed(req, h, c, tbls, ds) ==
    [req |-> req, out |-> h.out, dispatch |-> h.dispatch, resp |-> h.resp,
     pre |-> [conn |-> c, tables |-> tbls, available_datasets |-> ds]]

NoHandled(tbls) == Handled(NoOutcome(tbls), 0, NoResponse)

Init ==
    /\ conn = None
    /\ tables \in {{}, {"tmp"}, TableNames}
    /\ available_datasets = {}
    /\ pc = [t \in Tasks |-> "idle"]
    /\ running = {}
    /\ cur = [t \in Tasks |-> NoRequest]
    /\ obs = Observed(NoRequest, NoHandled(tables), conn, tables, available_datasets)
    /\ session = "idle"
    /\ opened = 0

\* An initialize that connects without closing the connection it holds.
OpenAfterInit_NoClose(c, n) == n + 1

\* if self.conn: self.conn.close(), then self.conn = duckdb.connect(...):
\* the number of open connections after initialize, from n before.
OpenAfterInit(c, n) == (IF c # None THEN n - 1 ELSE n) + 1

\* DataQueryServer.initialize with load_sample_datasets, run as operation op:
\* CREATE OR REPLACE TABLE sales, customers, then the metadata of the two.
\* The database file is taken to be free, so that connect does not fall
\* back to an in-memory database.
InitializedAs(op) ==
    /\ conn' = "open"
    /\ opened' = OpenAfterInit(conn, opened)
    /\ tables' = tables \cup SampleTables
    /\ available_datasets' = SampleTables
    /\ obs' = Observed(Lifecycle(op), NoHandled(tables'),
                       conn, tables, available_datasets)

Initialized == InitializedAs("initialize")

\* data_server.initialize() called by a test, a fixture or run_sse_server.
initialize ==
    /\ session = "idle"
    /\ running = {}
    /\ Initialized
    /\ UNCHANGED <<pc, running, cur, session>>

\* A cleanup that closes whatever conn is.
Cleaned_NoGuard(c, tbls) ==
    IF c = None
    THEN [conn |-> c, closed |-> 0,
          out |-> Raises("AttributeError",
                         <<"'NoneType' object has no attribute 'close'">>, 0, tbls)]
    ELSE [conn |-> None, closed |-> 1, out |-> NoOutcome(tbls)]

\* DataQueryServer.cleanup: if self.conn: self.conn.close(); self.conn = None
Cleaned(c, tbls) ==
    IF c # None
    THEN [conn |-> None, closed |-> 1, out |-> NoOutcome(tbls)]
    ELSE [conn |-> c, closed |-> 0, out |-> NoOutcome(tbls)]

\* data_server.cleanup() called by a test or a fixture.
cleanup ==
    /\ session = "idle"
    /\ running = {}
    /\ LET r == Cleaned(conn, tables) IN
       /\ conn' = r.conn
       /\ opened' = opened - r.closed
       /\ obs' = Observed(Lifecycle("cleanup"), Handled(r.out, 0, NoResponse),
                          conn, tables, available_datasets)
    /\ UNCHANGED <<tables, available_datasets, pc, running, cur, session>>

\* run_stdio_server, up to server.run: the process starts, initializes the
\* store and enters the session.
run_stdio_server ==
    /\ session = "idle"
    /\ conn = None
    /\ available_datasets = {}
    /\ running = {}
    /\ InitializedAs("run_stdio_server")
    /\ session' = "active"
    /\ UNCHANGED <<pc, running, cur>>

\* The stream ends: server.run returns, the with block of stdio_server is
\* left and run_stdio_server returns.  No handler is running then, since a
\* handler keeps the event loop until it has returned.
stream_eof ==
    /\ session = "active"
    /\ running = {}
    /\ pc[0] = "idle"
    /\ session' = "closed"
    /\ obs' = Observed(Lifecycle("eof"), NoHandled(tables),
                       conn, tables, available_datasets)
    /\ UNCHANGED <<conn, tables, available_datasets, pc, running, cur, opened>>

\* run_sse_server serves the two routes only after data_server.initialize()
\* has returned, which leaves available_datasets filled for good.
Serving == available_datasets # {}

\* A store call that is awaited: the coroutine gives the event loop up
\* while the call is in flight.
HeldDuringStore_Yields(t) == {}

\* execute_sql and get_table_info are plain functions: the coroutine that
\* calls one keeps the event loop until the store call has returned.
HeldDuringStore(t) == {t}

\* A registry that forgets the datasets whose tables are gone.
DatasetsAfter_TracksTables(h, ds) ==
    IF h.init THEN SampleTables ELSE ds \cap h.out.tables

\* available_datasets is assigned in load_sample_datasets only, which
\* initialize calls.
DatasetsAfter(h, ds) == IF h.init THEN SampleTables ELSE ds

\* Coroutine t runs req to its end: h is what handling it comes to.
Finish(t, req, h) ==
    /\ conn' = IF h.init THEN "open" ELSE conn
    /\ opened' = IF h.init THEN OpenAfterInit(conn, opened) ELSE opened
    /\ tables' = h.out.tables
    /\ available_datasets' = DatasetsAfter(h, available_datasets)
    /\ obs' = Observed(req, h, conn, tables, available_datasets)
    /\ pc' = [pc EXCEPT ![t] = "idle"]
    /\ cur' = [cur EXCEPT ![t] = NoRequest]
    /\ running' = {}
    /\ UNCHANGED session

\* Coroutine t runs req up to its store call, or to its end without one.
Begin(t, req) ==
    LET h == Handle(req, conn, tables, available_datasets) IN
    IF h.out.store > 0
    THEN /\ pc' = [pc EXCEPT ![t] = "store"]
         /\ cur' = [cur EXCEPT ![t] = req]
         /\ running' = HeldDuringStore(t)
         /\ obs' = Observed(InFlight, NoHandled(tables),
                            conn, tables, available_datasets)
         /\ UNCHANGED <<conn, tables, available_datasets, session, opened>>
    ELSE Finish(t, req, h)

\* A handler is called directly: by a test, or for a request of the stream
\* session.
CallHandler(req) ==
    /\ session # "closed"
    /\ pc[0] = "idle"
    /\ running = {}
    /\ Begin(0, req)

\* A POST arrives: post starts and awaits request.json().
AcceptPost(t) ==
    /\ Serving
    /\ session = "idle"
    /\ pc[t] = "idle"
    /\ running = {}
    /\ pc' = [pc EXCEPT ![t] = "body"]
    /\ UNCHANGED <<conn, tables, available_datasets, running, cur, obs,
                   session, opened>>

\* SSEEndpoint.get: a GET of /sse is answered with a Response whose body is
\* the one event.
get ==
    /\ Serving
    /\ session = "idle"
    /\ running = {}
    /\ obs' = Observed(GetRequest, Handled(NoOutcome(tables), 0, EventResponse),
                       conn, tables, available_datasets)
    /\ UNCHANGED <<conn, tables, available_datasets, pc, running, cur,
                   session, opened>>

\* request.json() is done: post runs on from line 398.
PostBody(t, req) ==
    /\ pc[t] = "body"
    /\ running = {}
    /\ Begin(t, req)

\* The store call of coroutine t returns and the handler runs to its end.
StoreReturn(t) ==
    /\ pc[t] = "store"
    /\ Finish(t, cur[t], Handle(cur[t], conn, tables, available_datasets))

Next ==
    \/ initialize
    \/ cleanup
    \/ run_stdio_server
    \/ stream_eof
    \/ get
    \/ \E req \in DirectRequests : CallHandler(req)
    \/ \E t \in HttpTasks : AcceptPost(t)
    \/ \E t \in HttpTasks, req \in HttpRequests : PostBody(t, req)
    \/ \E t \in Tasks : StoreReturn(t)

Spec == Init /\ [][Next]_vars

\* ------------------------------------------------------------------ claims

\* The server state is what the last operation started from.
StateUnchanged ==
    /\ conn = obs.pre.conn
    /\ tables = obs.pre.tables
    /\ available_datasets = obs.pre.available_datasets

\* The last operation was a call of handle_call_tool / handle_read_resource.
ToolCalled == obs.dispatch = 1 /\ obs.req.method = "tools/call"
ResourceRead == obs.dispatch = 1 /\ obs.req.method = "resources/read"
\* The last operation was a POST, answered with obs.resp.
Posted == obs.req.body \in {"notjson", "nonobject", "object"}

\* C1: for every tool name other than sql_query, describe_table and
\* list_tables, whatever the arguments and the store state, handle_call_tool
\* raises the unknown-tool error and makes no call into the store.
C1_UnknownToolRaises ==
    (ToolCalled /\ obs.req.name \notin ToolNames) =>
        /\ obs.out.raised
        /\ obs.out.exc = "ValueError"
        /\ obs.out.err = <<"Unknown tool: ", obs.req.name>>
        /\ obs.out.store = 0
        /\ StateUnchanged

C1_Witness ==
    /\ ToolCalled
    /\ obs.req.name = "unknown_tool"
    /\ obs.req.arguments = QueryArgs(Select("sales", MaxLimit))
    /\ obs.out.raised
    /\ conn # None

\* C2: a sql_query call whose arguments are None, empty or without the key
\* "query" raises the missing-argument error before any store access: the
\* store is not called and the server state does not change.
C2_MissingQueryRaises ==
    (/\ ToolCalled
     /\ obs.req.name = "sql_query"
     /\ \/ obs.req.arguments.shape = "none"
        \/ obs.req.arguments.shape = "dict" /\ "query" \notin obs.req.arguments.keys)
    =>  /\ obs.out.raised
        /\ obs.out.exc = "ValueError"
        /\ obs.out.err = <<"Missing SQL query">>
        /\ obs.out.store = 0
        /\ StateUnchanged

C2_Witness ==
    /\ ToolCalled
    /\ obs.req.name = "sql_query"
    /\ obs.req.arguments = OtherArgs
    /\ obs.out.raised
    /\ conn # None

\* The store fails on query q in the state the last operation started from.
StoreFailed(q) ==
    obs.pre.conn = None \/ ~StoreRun(q, obs.pre.tables).ok
StoreMessage(q) ==
    IF obs.pre.conn = None THEN NoneTypeError
    ELSE StoreRun(q, obs.pre.tables).error

\* C3: a sql_query call with a "query" argument never raises, whatever the
\* query; when the store fails on it the call returns exactly one text
\* payload "Query failed: <message>" with the store's message.
C3_QueryFailureIsReported ==
    (/\ ToolCalled
     /\ obs.req.name = "sql_query"
     /\ obs.req.arguments.shape = "dict"
     /\ "query" \in obs.req.arguments.keys)
    =>  /\ ~obs.out.raised
        /\ Len(obs.out.content) = 1
        /\ StoreFailed(obs.req.arguments.query) =>
              /\ obs.out.content[1].head = "Query failed: "
              /\ obs.out.content[1].error = StoreMessage(obs.req.arguments.query)

C3_Witness ==
    /\ ToolCalled
    /\ obs.req.name = "sql_query"
    /\ obs.req.arguments = QueryArgs(Select("tmp", 0))
    /\ obs.pre.conn # None
    /\ "tmp" \notin obs.pre.tables
    /\ Len(obs.out.content) = 1
    /\ obs.out.content[1].head = "Query failed: "

\* C4: every response of the message endpoint carries the id of its request,
\* for every method and every params value; the id is null only when the
\* body is no JSON object an id could be read from.
C4_ResponseCarriesRequestId ==
    Posted =>
        \/ obs.resp.id = obs.req.id
        \/ obs.req.body # "object" /\ obs.resp.id = NoId

\* C5: a POST whose body is not a parseable JSON request is answered with
\* HTTP 400 and an error envelope of code -32700 and id null, and no handler
\* and no store call is made.
C5_MalformedBodyIsParseError ==
    obs.req.body \in {"notjson", "nonobject"} =>
        /\ obs.resp.status = HttpBadRequest
        /\ obs.resp.error
        /\ obs.resp.code = ParseError
        /\ obs.resp.id = NoId
        /\ obs.dispatch = 0
        /\ obs.out.store = 0
        /\ StateUnchanged

C5_Witness ==
    /\ obs.req.body = "notjson"
    /\ obs.resp.status = HttpBadRequest
    /\ conn # None

\* C6: a POST whose method is none of initialize, tools/list, tools/call,
\* resources/list, resources/read (a body without method included) is
\* answered with error -32601 "Method not found" and the request's id, and
\* no handler and no store call is made.
C6_UnknownMethodNotFound ==
    (obs.req.body = "object" /\ obs.req.method \notin Methods) =>
        /\ obs.resp.error
        /\ obs.resp.code = MethodNotFound
        /\ obs.resp.message = <<"Method not found: ", obs.req.method>>
        /\ obs.resp.id = obs.req.id
        /\ obs.dispatch = 0
        /\ obs.out.store = 0
        /\ StateUnchanged

C6_Witness ==
    /\ obs.req.body = "object"
    /\ obs.req.method = None
    /\ obs.req.params = "null"
    /\ obs.req.id = <<MaxId>>
    /\ obs.resp.code = MethodNotFound

\* C7: for the methods tools/call and resources/read, an error raised by the
\* handler (unknown tool, missing argument, unsupported scheme, dataset not
\* found) is answered with an error envelope of code -32603 that carries the
\* request's id and the error's message, and with no other code.
C7_HandlerErrorIsInternalError ==
    (/\ obs.req.body = "object"
     /\ obs.req.method \in {"tools/call", "resources/read"}
     /\ obs.dispatch = 1
     /\ obs.out.raised)
    =>  /\ obs.resp.error
        /\ obs.resp.code = InternalError
        /\ obs.resp.id = obs.req.id
        /\ obs.resp.message = obs.out.err

C7_Witness ==
    /\ obs.req.body = "object"
    /\ obs.req.method = "resources/read"
    /\ obs.req.uri = Url("dataset", "tmp")
    /\ obs.req.id = <<MaxId>>
    /\ obs.dispatch = 1
    /\ obs.out.raised
    /\ obs.resp.code = InternalError

\* C8: handle_read_resource raises exactly when the scheme of the URI is
\* neither dataset nor schema, or the scheme is dataset and the host is no
\* key of available_datasets; when it raises it has made no store call.
C8_ReadResourceRaisesExactly ==
    ResourceRead =>
        /\ obs.out.raised <=>
              \/ obs.req.uri.scheme \notin {"dataset", "schema"}
              \/ /\ obs.req.uri.scheme = "dataset"
                 /\ obs.req.uri.host \notin obs.pre.available_datasets
        /\ obs.out.raised =>
              /\ obs.out.exc = "ValueError"
              /\ obs.out.store = 0
              /\ StateUnchanged

C8_Witness ==
    /\ ResourceRead
    /\ obs.req.uri = Url("dataset", "tmp")
    /\ "tmp" \in obs.pre.tables
    /\ obs.pre.conn # None
    /\ obs.pre.available_datasets # {}
    /\ obs.out.raised

\* The coroutines that are inside a call into the store.
InStore == {t \in Tasks : pc[t] = "store"}

\* C9: over concurrently served requests no two calls into the store are in
\* flight at the same time: while a coroutine is inside a store call it holds
\* the event loop, so the call returns before another one begins.
C9_OneStoreCallInFlight ==
    /\ Cardinality(InStore) <= 1
    /\ \A t \in InStore : running = {t}

C9_Witness ==
    \E t, u \in HttpTasks : pc[t] = "store" /\ pc[u] = "body"

\* The last operation returned the str() of an execute_sql result.
SqlResultSeen ==
    /\ ~obs.out.raised
    /\ Len(obs.out.content) = 1
    /\ obs.out.content[1].head = "str(result)"

\* C10: a result of execute_sql with success false carries no rows and no
\* columns and a row_count of 0, for every query and every store state.
C10_FailureCarriesNoRows ==
    (SqlResultSeen /\ ~obs.out.content[1].success) =>
        /\ obs.out.content[1].rows = <<>>
        /\ obs.out.content[1].columns = <<>>
        /\ obs.out.content[1].row_count = 0

C10_Witness ==
    /\ SqlResultSeen
    /\ obs.req.method = "execute_sql"
    /\ obs.req.arguments.query.kind = "drop"
    /\ obs.pre.conn # None
    /\ ~obs.out.content[1].success

ToolsListed == obs.dispatch = 1 /\ obs.req.method = "tools/list"
ResourcesListed == obs.dispatch = 1 /\ obs.req.method = "resources/list"

\* C12: in every reachable state (before initialize, after any calls, after
\* cleanup) handle_list_tools returns the same three descriptors sql_query,
\* describe_table, list_tables in that order, without entering the store and
\* without changing the state.
C12_ListToolsIsConstant ==
    ToolsListed =>
        /\ ~obs.out.raised
        /\ Len(obs.out.content) = 1
        /\ obs.out.content[1].items = <<"sql_query", "describe_table", "list_tables">>
        /\ obs.out.store = 0
        /\ StateUnchanged

\* Tools are listed after cleanup, with the sales table dropped before.
C12_Witness ==
    /\ ToolsListed
    /\ conn = None
    /\ available_datasets # {}
    /\ "sales" \notin tables
    /\ Len(obs.out.content[1].items) = 3

\* C13: handle_list_resources returns one dataset://<name> per entry of
\* available_datasets, then one schema://all: as many URIs as datasets plus
\* one, pairwise distinct, without entering the store and without changing
\* the state.
C13_ListResourcesPerDataset ==
    ResourcesListed =>
        LET res == obs.out.content[1].resources
            n == Cardinality(obs.pre.available_datasets)
        IN /\ ~obs.out.raised
           /\ Len(res) = n + 1
           /\ res[n + 1] = SchemaAll
           /\ {res[i] : i \in 1..n} =
                 {Url("dataset", d) : d \in obs.pre.available_datasets}
           /\ \A i, j \in DOMAIN res : res[i] = res[j] => i = j
           /\ obs.out.store = 0
           /\ StateUnchanged

\* Resources are listed while the database holds a table that is no dataset.
C13_Witness ==
    /\ ResourcesListed
    /\ available_datasets = SampleTables
    /\ "tmp" \in tables
    /\ Len(obs.out.content[1].resources) = 3

\* The names of the datasets that handle_list_resources lists in the
\* current state: its URIs without the schema resource.
ListedDatasets ==
    LET res == handle_list_resources(tables, available_datasets).content[1].resources
    IN {res[i].host : i \in {j \in DOMAIN res : res[j] # SchemaAll}}

\* C14: after any sequence of operations (also sql_query calls that create
\* or drop tables) the table list that reading schema://all returns is
\* exactly the set of datasets that handle_list_resources returns, the
\* schema resource left out.
C14_SchemaListsTheDatasets ==
    (ResourceRead /\ obs.req.uri = SchemaAll) =>
        /\ ~obs.out.raised
        /\ {obs.out.content[1].items[i] : i \in DOMAIN obs.out.content[1].items}
             = ListedDatasets

\* C15: once the store is initialized available_datasets is read-only: no
\* tool call, resource read, listing, HTTP request or tool function changes
\* it, whatever it does to the tables of the database.
C15_DatasetsAreReadOnly ==
    obs.pre.available_datasets # {} =>
        available_datasets = obs.pre.available_datasets

\* sql_query has dropped the sales table, and its dataset is still there.
C15_Witness ==
    /\ ToolCalled
    /\ obs.req.name = "sql_query"
    /\ obs.req.arguments.query.kind = "drop"
    /\ "sales" \in obs.pre.tables
    /\ "sales" \notin tables
    /\ "sales" \in available_datasets

\* C16: a successful sql_query whose result has n rows lists exactly the
\* rows 1..min(n, 10) as 'Row i: ...', in order, and has the trailing line
\* with n - 10 more rows exactly when n > 10 (15 rows: rows 1 to 10, then
\* '5 more rows').
C16_FirstTenRowsShown ==
    (/\ ToolCalled
     /\ obs.req.name = "sql_query"
     /\ ~obs.out.raised
     /\ obs.out.content[1].head = "Query executed successfully!") =>
        LET text == obs.out.content[1]
            result == execute_sql(obs.req.arguments.query, obs.pre.conn,
                                  obs.pre.tables)
            n == Len(result.data)
        IN /\ Len(obs.out.content) = 1
           /\ Len(text.rows) = Min(n, DisplayRows)
           /\ \A i \in 1..Min(n, DisplayRows) : text.rows[i] = result.data[i]
           /\ (text.more > 0) <=> (n > DisplayRows)
           /\ n > DisplayRows => text.more = n - DisplayRows

\* A query of 15 rows: ten rows are shown, and '5 more rows'.
C16_Witness ==
    /\ ToolCalled
    /\ obs.req.name = "sql_query"
    /\ ~obs.out.raised
    /\ obs.out.content[1].row_count = 15
    /\ Len(obs.out.content[1].rows) = 10
    /\ obs.out.content[1].more = 5

\* The last operation was a call of the tool describe_table with arguments
\* that are None or a dict.
DescribeCalled ==
    /\ ToolCalled
    /\ obs.req.name = "describe_table"
    /\ obs.req.arguments.shape # "number"

\* C17: describe_table needs a table_name that is a non-empty string: without
\* one, or with "", the call raises the missing-argument error, and for no
\* table_name does another kind of exception leave handle_call_tool.
C17_DescribeNeedsTableName ==
    DescribeCalled =>
        LET a == obs.req.arguments
            missing == \/ a.shape = "none"
                       \/ "table_name" \notin a.keys
                       \/ a.table_name = ""
            MissingArgument == /\ obs.out.raised
                               /\ obs.out.exc = "ValueError"
                               /\ obs.out.err = <<"Missing table name">>
        IN /\ missing => MissingArgument
           /\ obs.out.raised => MissingArgument

\* C18: sql_query needs a query that is a non-empty string: the empty string
\* is rejected with the missing-argument error and is not given to the store.
C18_EmptyQueryIsRejected ==
    (/\ ToolCalled
     /\ obs.req.name = "sql_query"
     /\ obs.req.arguments.shape = "dict"
     /\ "query" \in obs.req.arguments.keys
     /\ obs.req.arguments.query.kind = "empty") =>
        /\ obs.out.raised
        /\ obs.out.exc = "ValueError"
        /\ obs.out.err = <<"Missing SQL query">>
        /\ obs.out.store = 0

\* The last describe_table had a table_name that is no table of the database.
UnknownTableDescribed ==
    /\ DescribeCalled
    /\ obs.req.arguments.shape = "dict"
    /\ "table_name" \in obs.req.arguments.keys
    /\ obs.req.arguments.table_name \notin {"", None}
    /\ obs.req.arguments.table_name \notin obs.pre.tables

\* C19: describe_table with a table_name that the store does not know does
\* not raise: it returns one text 'Error describing table: ...' that carries
\* the error of the store.
C19_UnknownTableIsReported ==
    UnknownTableDescribed =>
        /\ ~obs.out.raised
        /\ Len(obs.out.content) = 1
        /\ obs.out.content[1].head = "Error describing table: "
        /\ obs.out.content[1].error =
              IF obs.pre.conn = None THEN NoneTypeError
              ELSE "Catalog Error: table does not exist"
        /\ StateUnchanged

\* The sales table was dropped, and describe_table is asked for it.
C19_Witness ==
    /\ UnknownTableDescribed
    /\ obs.pre.conn # None
    /\ obs.req.arguments.table_name = "sales"
    /\ obs.out.content[1].error = "Catalog Error: table does not exist"

\* The endpoint can take a POST up: a coroutine of post can start, or one
\* whose body has arrived can run.
CanServe ==
    ENABLED (\E t \in HttpTasks :
                AcceptPost(t) \/ \E req \in HttpRequests : PostBody(t, req))

\* C20: for every POST body, valid or not, the message endpoint returns
\* exactly one JSON envelope (HTTP 200 or 400, with either a result or an
\* error) and lets no exception escape; a POST that failed leaves the state
\* of the server as it was and the event loop free, so that the next POST is
\* taken up and served as any other.
C20_EveryPostIsAnswered ==
    Posted =>
        /\ obs.resp # NoResponse
        /\ obs.resp.status \in {HttpOk, HttpBadRequest}
        /\ obs.resp.error <=> (obs.resp.result = <<>>)
        /\ obs.resp.error => (StateUnchanged /\ running = {} /\ CanServe)

\* A POST was answered with an error from a handler that had entered the
\* store, and the next POST is waiting for its body.
C20_Witness ==
    /\ Posted
    /\ obs.resp.error
    /\ obs.resp.code = InternalError
    /\ obs.out.store = 1
    /\ \E t \in HttpTasks : pc[t] = "body"

\* The outcome of the last call reports a failure: an exception, or a text
\* that carries an error.
FailureReported ==
    \/ obs.out.raised
    \/ /\ Len(obs.out.content) = 1
       /\ obs.out.content[1].error # ""
       /\ obs.out.content[1].head \in
             {"Query failed: ", "Error describing table: ",
              "Error listing tables: ", "str(result)", "str(schema_info)"}
       /\ ~obs.out.content[1].success

\* C21: while there is no store connection (conn is None: never initialized,
\* or after cleanup) every tool call and resource read fails on its own with
\* a reported failure and changes nothing; with the connection there again
\* a call fails only for reasons of its own, and list_tables and the schema
\* resource succeed.
C21_NoConnectionFailsTheCall ==
    (ToolCalled \/ ResourceRead) =>
        /\ obs.pre.conn = None => (FailureReported /\ StateUnchanged)
        /\ (obs.pre.conn # None /\ ~obs.out.raised) =>
              obs.out.content[1].error # NoneTypeError
        /\ (obs.pre.conn # None /\ ToolCalled /\ obs.req.name = "list_tables") =>
              (~obs.out.raised /\ obs.out.content[1].head = "Available tables:")
        /\ (obs.pre.conn # None /\ ResourceRead /\ obs.req.uri = SchemaAll) =>
              (~obs.out.raised /\ obs.out.content[1].error = "")

\* After cleanup a query of the sales table is answered 'Query failed: ...'.
C21_Witness ==
    /\ ToolCalled
    /\ obs.req.name = "sql_query"
    /\ obs.pre.conn = None
    /\ "sales" \in obs.pre.available_datasets
    /\ "sales" \in obs.pre.tables
    /\ ~obs.out.raised
    /\ obs.out.content[1].head = "Query failed: "
    /\ obs.out.content[1].error = NoneTypeError

\* C22: there is no retry: a tool call or resource read enters the store at
\* most once, and a store call that failed is reported once and not made
\* again within the call.
C22_AtMostOneStoreCall ==
    (ToolCalled \/ ResourceRead) =>
        /\ obs.out.store <= 1
        /\ obs.out.raised => Len(obs.out.content) = 0
        /\ ~obs.out.raised => Len(obs.out.content) = 1

\* A query that the store failed was reported after one store call.
C22_Witness ==
    /\ ToolCalled
    /\ obs.req.name = "sql_query"
    /\ obs.pre.conn # None
    /\ ~obs.out.raised
    /\ obs.out.content[1].head = "Query failed: "
    /\ obs.out.store = 1

\* The last operation was a run of initialize.
JustInitialized ==
    /\ obs.req.body = "lifecycle"
    /\ obs.req.method \in {"initialize", "run_stdio_server"}

\* C24: the stream adapter goes from idle to the active session and to
\* closed: the store is initialized before any request of the session is
\* served, and when the session has closed, the shutdown of the store has
\* run after the operations in flight, so that the connection is closed.
C24_SessionClosesTheStore ==
    /\ (session = "active" /\ obs.req.body = "direct") =>
          /\ obs.pre.conn # None
          /\ obs.pre.available_datasets = SampleTables
    /\ session = "closed" =>
          /\ \A t \in Tasks : pc[t] = "idle"
          /\ conn = None
          /\ opened = 0

\* C25: a GET of the event endpoint is answered at once with exactly one
\* 'connected' event, the connection is left open after it, and no handler
\* and no store call is made.
C25_GetEmitsConnectedAndStaysOpen ==
    obs.req = GetRequest =>
        /\ obs.resp.status = HttpOk
        /\ Len(obs.resp.result) = 1
        /\ obs.resp.result[1].head = "event: connected"
        /\ obs.resp.more_body
        /\ obs.dispatch = 0
        /\ obs.out.store = 0
        /\ StateUnchanged

\* C26: after initialize conn is not None; after cleanup it is None, and
\* cleanup is idempotent: a second cleanup, or one before any initialize,
\* does not fail and changes nothing.
C26_ConnectionLifecycle ==
    /\ JustInitialized => conn # None
    /\ (obs.req.body = "lifecycle" /\ obs.req.method = "cleanup") =>
          /\ conn = None
          /\ ~obs.out.raised
          /\ obs.pre.conn = None => StateUnchanged

\* A cleanup after a cleanup.
C26_Witness ==
    /\ obs.req.body = "lifecycle"
    /\ obs.req.method = "cleanup"
    /\ obs.pre.conn = None
    /\ available_datasets # {}
    /\ conn = None

\* C27: after initialize the tables that get_table_info() reports are the
\* keys of available_datasets, exactly sales and customers, whatever the
\* database file held from earlier runs.
C27_TablesAreTheDatasets ==
    JustInitialized =>
        LET info == get_table_info(None, conn, tables, available_datasets)
            reported == {info.tables[i] : i \in DOMAIN info.tables}
        IN /\ info.kind = "tables"
           /\ reported = available_datasets
           /\ reported = {"sales", "customers"}

\* C28: -32700 with HTTP 400 is the answer only to a body that does not
\* parse as a request: a POST whose body is a JSON object with a supported
\* method is never answered -32700, whatever its params, and a failure of
\* handling it is answered -32603.
C28_ParseErrorOnlyForBadEnvelope ==
    (obs.req.body = "object" /\ obs.req.method \in Methods) =>
        /\ obs.resp.code # ParseError
        /\ obs.resp.status = HttpOk
        /\ obs.resp.error => obs.resp.code = InternalError

\* C29: over any sequence of initialize and cleanup at most one connection
\* that the server opened is open: initialize closes the one it holds before
\* it connects, and a connection that is open is the one conn refers to.
C29_AtMostOneOpenConnection ==
    /\ opened \in {0, 1}
    /\ (opened = 1) <=> (conn # None)

\* initialize has run on a server that held an open connection.
C29_Witness ==
    /\ obs.req.body = "lifecycle"
    /\ obs.req.method = "initialize"
    /\ obs.pre.conn # None
    /\ conn # None
    /\ opened = 1

====
